---- MODULE Spec2Model ----
(***************************************************************************)
(* Model of src/src/plugin-main.cpp: the NDI runtime locator/loader        *)
(* (load_ndilib), the version gate (is_version_supported) and the module   *)
(* lifecycle hooks obs_module_load / obs_module_unload.                    *)
(*                                                                         *)
(* Strings are sequences of one-character strings, so that parsing and     *)
(* formatting are computed and not assumed.  QLibrary objects are heap     *)
(* cells identified by the order of their construction; a pointer is the   *)
(* identity of a cell, 0 is nullptr.                                       *)
(***************************************************************************)
EXTENDS Integers, Sequences, FiniteSets, TLC

\* ------------------------------------------------------------------ bounds
\* QLibrary objects that may be constructed in one run
MaxHandles == 2
\* delete-expressions that may be applied to one QLibrary object in one run
MaxDeletes == 2

\* --------------------------------------------------------------- strings
Digits == {"0", "1", "2", "3", "4", "5", "6", "7", "8", "9"}

DigitVal(c) ==
    CASE c = "0" -> 0 [] c = "1" -> 1 [] c = "2" -> 2 [] c = "3" -> 3
      [] c = "4" -> 4 [] c = "5" -> 5 [] c = "6" -> 6 [] c = "7" -> 7
      [] c = "8" -> 8 [] c = "9" -> 9

DigitChar(d) ==
    CASE d = 0 -> "0" [] d = 1 -> "1" [] d = 2 -> "2" [] d = 3 -> "3"
      [] d = 4 -> "4" [] d = 5 -> "5" [] d = 6 -> "6" [] d = 7 -> "7"
      [] d = 8 -> "8" [] d = 9 -> "9"

\* decimal text of the largest value of a C++ int, 2^31 - 1
INT_MAX_TEXT == <<"2", "1", "4", "7", "4", "8", "3", "6", "4", "7">>

AllDigits(s) == \A i \in 1..Len(s) : s[i] \in Digits

RECURSIVE DecimalValue(_)
DecimalValue(s) ==
    IF s = <<>> THEN 0
    ELSE 10 * DecimalValue(SubSeq(s, 1, Len(s) - 1)) + DigitVal(s[Len(s)])

RECURSIVE TrimLeft(_)
TrimLeft(s) ==
    IF s # <<>> /\ s[1] = " " THEN TrimLeft(Tail(s)) ELSE s

RECURSIVE TrimRight(_)
TrimRight(s) ==
    IF s # <<>> /\ s[Len(s)] = " " THEN TrimRight(SubSeq(s, 1, Len(s) - 1)) ELSE s

RECURSIVE StripZeros(_)
StripZeros(s) ==
    IF Len(s) > 1 /\ s[1] = "0" THEN StripZeros(Tail(s)) ELSE s

\* digit strings without leading zeros, compared as numbers
DigitsGreater(a, b) ==
    \/ Len(a) > Len(b)
    \/ /\ Len(a) = Len(b)
       /\ \E i \in 1..Len(a) :
             /\ DigitVal(a[i]) > DigitVal(b[i])
             /\ \A j \in 1..(i - 1) : a[j] = b[j]

\* QString::toInt(): surrounding whitespace is skipped, one sign is accepted,
\* and 0 is returned when the text is not a number or does not fit an int.
toInt(part) ==
    LET t    == TrimRight(TrimLeft(part))
        neg  == t # <<>> /\ t[1] = "-"
        body == IF t # <<>> /\ t[1] \in {"+", "-"} THEN Tail(t) ELSE t
    IN  IF body = <<>> \/ ~AllDigits(body) THEN 0
        ELSE LET d == StripZeros(body)
             IN  IF DigitsGreater(d, INT_MAX_TEXT)
                 THEN (IF neg /\ d = <<"2", "1", "4", "7", "4", "8", "3", "6", "4", "8">>
                       THEN (0 - DecimalValue(INT_MAX_TEXT)) - 1 ELSE 0)
                 ELSE IF neg THEN 0 - DecimalValue(d) ELSE DecimalValue(d)

\* QString::split('.'): empty parts are kept, so the result is never empty.
RECURSIVE split(_)
split(s) ==
    IF \A i \in 1..Len(s) : s[i] # "." THEN <<s>>
    ELSE LET k == CHOOSE i \in 1..Len(s) :
                      s[i] = "." /\ \A j \in 1..(i - 1) : s[j] # "."
         IN  <<SubSeq(s, 1, k - 1)>> \o split(SubSeq(s, k + 1, Len(s)))

\* decimal text of a natural number, and a version tuple joined with '.'
RECURSIVE ToDigits(_)
ToDigits(n) ==
    IF n < 10 THEN <<DigitChar(n)>>
    ELSE ToDigits(n \div 10) \o <<DigitChar(n % 10)>>

RECURSIVE FormatVersion(_)
FormatVersion(t) ==
    IF Len(t) = 1 THEN ToDigits(t[1])
    ELSE ToDigits(t[1]) \o <<".">> \o FormatVersion(Tail(t))

\* ------------------------------------------------------ version comparison
qMax(a, b) == IF a > b THEN a ELSE b

\* the comparison loop without its "less than" exit: a smaller field is
\* passed over and a later, greater field decides
RECURSIVE VersionLoop_NoLessExit(_, _, _, _)
VersionLoop_NoLessExit(version_parts, min_version_parts, i, max_parts) ==
    IF i > max_parts THEN TRUE
    ELSE LET version_part ==
                 IF i <= Len(version_parts) THEN toInt(version_parts[i]) ELSE 0
             min_version_part ==
                 IF i <= Len(min_version_parts) THEN toInt(min_version_parts[i]) ELSE 0
         IN  IF version_part > min_version_part THEN TRUE
             ELSE VersionLoop_NoLessExit(version_parts, min_version_parts, i + 1, max_parts)

RECURSIVE VersionLoop(_, _, _, _)
VersionLoop(version_parts, min_version_parts, i, max_parts) ==
    IF i > max_parts THEN TRUE
    ELSE LET version_part ==
                 IF i <= Len(version_parts) THEN toInt(version_parts[i]) ELSE 0
             min_version_part ==
                 IF i <= Len(min_version_parts) THEN toInt(min_version_parts[i]) ELSE 0
         IN  IF version_part > min_version_part THEN TRUE
             ELSE IF version_part < min_version_part THEN FALSE
             ELSE VersionLoop(version_parts, min_version_parts, i + 1, max_parts)

\* the comparison over the fields both versions have: the shorter version
\* is not padded with zeros
is_version_supported_NoPadding(version, min_version) ==
    LET version_parts     == split(version)
        min_version_parts == split(min_version)
        min_parts         == IF Len(version_parts) < Len(min_version_parts)
                             THEN Len(version_parts) ELSE Len(min_version_parts)
    IN  VersionLoop(version_parts, min_version_parts, 1, min_parts)

is_version_supported(version, min_version) ==
    LET version_parts     == split(version)
        min_version_parts == split(min_version)
        max_parts         == qMax(Len(version_parts), Len(min_version_parts))
    IN  VersionLoop(version_parts, min_version_parts, 1, max_parts)

PLUGIN_MIN_NDI_VERSION == <<"6", ".", "0", ".", "0">>

\* QRegularExpression(R"((\d+\.\d+(\.\d+)?(\.\d+)?$))").match(s).captured(1):
\* the pattern is anchored at the end only, so it matches at position i
\* exactly when s[i..] is two to four non-empty digit runs joined by '.';
\* the match reported is the leftmost one, and captured(1) of a failed
\* match is the empty string.
IsDottedGroup(s) ==
    LET parts == split(s)
    IN  /\ Len(parts) \in {2, 3, 4}
        /\ \A k \in 1..Len(parts) : parts[k] # <<>> /\ AllDigits(parts[k])

ndi_version_short(s) ==
    LET starts == {i \in 1..Len(s) : IsDottedGroup(SubSeq(s, i, Len(s)))}
    IN  IF starts = {} THEN <<>>
        ELSE LET i == CHOOSE m \in starts : \A n \in starts : m <= n
             IN  SubSeq(s, i, Len(s))

\* ---------------------------------------------------------------- Locator
\* Build platforms of the #if branches
Platforms == {"linux", "macos", "windows"}

\* QDir::cleanPath(applicationDirPath() + "/../Frameworks") of the running app
frameworksDir == "/Applications/OBS.app/Contents/Frameworks"

\* qgetenv(): the value of a set variable, an empty QByteArray otherwise
qgetenv(env, name) == IF env[name].set THEN env[name].value ELSE ""

\* the candidate list without the isEmpty() tests: the value of an unset or
\* empty environment variable is appended as well
locations_NoEmptyTest(plat, env) ==
    <<frameworksDir>>
        \o <<qgetenv(env, "NDI_RUNTIME_DIR_V6")>>
        \o <<qgetenv(env, "NDILIB_REDIST_FOLDER")>>
        \o (IF plat \in {"linux", "macos"} THEN <<"/usr/lib", "/usr/local/lib">> ELSE <<>>)
        \o (IF plat = "linux" THEN <<"/app/plugins/DistroAV/extra/lib">> ELSE <<>>)
        \o <<"/Library/NDI SDK for Apple/lib", "/Library/NDI/lib",
             "/opt/homebrew/opt/libndi/lib">>

\* the candidate list with the environment overrides put before the bundled
\* Frameworks directory
locations_EnvFirst(plat, env) ==
    LET v6     == qgetenv(env, "NDI_RUNTIME_DIR_V6")
        redist == qgetenv(env, "NDILIB_REDIST_FOLDER")
    IN  (IF v6 # "" THEN <<v6>> ELSE <<>>)
        \o (IF redist # "" THEN <<redist>> ELSE <<>>)
        \o <<frameworksDir>>
        \o (IF plat \in {"linux", "macos"} THEN <<"/usr/lib", "/usr/local/lib">> ELSE <<>>)
        \o (IF plat = "linux" THEN <<"/app/plugins/DistroAV/extra/lib">> ELSE <<>>)
        \o <<"/Library/NDI SDK for Apple/lib", "/Library/NDI/lib",
             "/opt/homebrew/opt/libndi/lib">>

\* The candidate directories, in the order load_ndilib appends them
locations(plat, env) ==
    LET v6     == qgetenv(env, "NDI_RUNTIME_DIR_V6")
        redist == qgetenv(env, "NDILIB_REDIST_FOLDER")
    IN  <<frameworksDir>>
        \o (IF v6 # "" THEN <<v6>> ELSE <<>>)
        \o (IF redist # "" THEN <<redist>> ELSE <<>>)
        \o (IF plat \in {"linux", "macos"} THEN <<"/usr/lib", "/usr/local/lib">> ELSE <<>>)
        \o (IF plat = "linux" THEN <<"/app/plugins/DistroAV/extra/lib">> ELSE <<>>)
        \o <<"/Library/NDI SDK for Apple/lib", "/Library/NDI/lib",
             "/opt/homebrew/opt/libndi/lib">>

\* A path is a directory and a file name; a file name is a stem and, for
\* the versioned shared objects "libndi.so.<ver>", the text after the stem.
\* The empty QString is EmptyPath.
EmptyPath == [dir |-> "", stem |-> "", ver |-> <<>>]

\* the fixed file name NDILIB_LIBRARY_NAME of the NDI SDK headers
NDILIB_LIBRARY_NAME == [stem |-> "NDILIB_LIBRARY_NAME", ver |-> <<>>]

\* character order used by QDir's sort by name
CharCode(c) ==
    IF c = "." THEN 46 ELSE IF c \in Digits THEN 48 + DigitVal(c) ELSE 120

LexLess(a, b) ==
    \/ Len(a) < Len(b) /\ \A i \in 1..Len(a) : a[i] = b[i]
    \/ \E i \in 1..qMax(Len(a), Len(b)) :
          /\ i <= Len(a) /\ i <= Len(b)
          /\ CharCode(a[i]) < CharCode(b[i])
          /\ \A j \in 1..(i - 1) : a[j] = b[j]

\* dir.setNameFilters("libndi.so.*"); dir.entryList(QDir::Files): the regular
\* files of the directory whose name matches the glob, sorted by name
RECURSIVE SortByName(_)
SortByName(S) ==
    IF S = {} THEN <<>>
    ELSE LET m == CHOOSE x \in S : \A y \in S : x = y \/ LexLess(x, y)
         IN  <<m>> \o SortByName(S \ {m})

entryList(fs, location) ==
    SortByName({e.ver : e \in {f \in fs[location] :
                                   f.stem = "libndi.so." /\ f.kind = "file"}})

\* QRegularExpression("libndi\\.so\\.(\\d+)").match(file_name): on a name
\* that passed the glob it matches when a digit follows the stem, and
\* captured(1) is the longest run of digits there.
RECURSIVE LeadingDigits(_)
LeadingDigits(s) ==
    IF s # <<>> /\ s[1] \in Digits THEN <<s[1]>> \o LeadingDigits(Tail(s)) ELSE <<>>

hasMatch(ver) == ver # <<>> /\ ver[1] \in Digits

\* inner loop of the Linux branch: the files of one directory
RECURSIVE ScanFiles(_, _, _, _)
ScanFiles(file_names, location, max_version, lib_path) ==
    IF file_names = <<>> THEN [max_version |-> max_version, lib_path |-> lib_path]
    ELSE LET file_name == Head(file_names)
             version   == toInt(LeadingDigits(file_name))
         IN  IF hasMatch(file_name) /\ version > max_version
             THEN ScanFiles(Tail(file_names), location, version,
                            [dir |-> location, stem |-> "libndi.so.", ver |-> file_name])
             ELSE ScanFiles(Tail(file_names), location, max_version, lib_path)

\* outer loop of the Linux branch: every candidate directory is scanned
RECURSIVE ScanLocations(_, _, _, _)
ScanLocations(fs, locs, max_version, lib_path) ==
    IF locs = <<>> THEN lib_path
    ELSE LET r == ScanFiles(entryList(fs, Head(locs)), Head(locs), max_version, lib_path)
         IN  ScanLocations(fs, Tail(locs), r.max_version, r.lib_path)

\* the macOS / Windows branch without its break: the last directory holding
\* the fixed-name file is kept
RECURSIVE FirstMatch_NoBreak(_, _)
FirstMatch_NoBreak(fs, locs) ==
    IF locs = <<>> THEN [dir |-> "", stem |-> "", ver |-> <<>>]
    ELSE LET later == FirstMatch_NoBreak(fs, Tail(locs))
         IN  IF later.dir # "" THEN later
             ELSE IF \E f \in fs[Head(locs)] :
                        /\ f.stem = "NDILIB_LIBRARY_NAME" /\ f.ver = <<>> /\ f.kind = "file"
                  THEN [dir |-> Head(locs), stem |-> "NDILIB_LIBRARY_NAME", ver |-> <<>>]
                  ELSE later

\* macOS / Windows branch: the first directory holding the fixed-name file
RECURSIVE FirstMatch(_, _)
FirstMatch(fs, locs) ==
    IF locs = <<>> THEN EmptyPath
    ELSE IF \E f \in fs[Head(locs)] :
                /\ f.stem = NDILIB_LIBRARY_NAME.stem /\ f.ver = NDILIB_LIBRARY_NAME.ver
                /\ f.kind = "file"
         THEN [dir |-> Head(locs), stem |-> NDILIB_LIBRARY_NAME.stem,
               ver |-> NDILIB_LIBRARY_NAME.ver]
         ELSE FirstMatch(fs, Tail(locs))

\* the loop over the candidate list of load_ndilib: the selected lib_path
Locate(plat, env, fs) ==
    IF plat = "linux" THEN ScanLocations(fs, locations(plat, env), 0, EmptyPath)
    ELSE FirstMatch(fs, locations(plat, env))

\* ------------------------------------------------------------------ state
VARIABLES
    platform,    \* the #if branch the plugin was built for
    env,         \* the process environment: NDI_RUNTIME_DIR_V6, NDILIB_REDIST_FOLDER
    fs,          \* the file system: directory -> the entries it holds
    loaded_lib,  \* QLibrary *loaded_lib: 0 is nullptr, else a QLibrary object
    ndiLib,      \* const NDIlib_v6 *ndiLib: 0 is nullptr, else the QLibrary
                 \* object whose image owns the function table
    heap,        \* the QLibrary objects constructed so far
    crashed,     \* the process was terminated by a fault
    lastCall,    \* the last hook the host called: inputs, return value, calls made
    vq,          \* a call of is_version_supported: arguments and return value
    lq           \* a run of the Locator part of load_ndilib: the candidate
                 \* list it built and the lib_path it selected

vars == <<platform, env, fs, loaded_lib, ndiLib, heap, crashed, lastCall, vq, lq>>

\* no call of is_version_supported / no run of the Locator on its own
NoVq == [phase |-> "none", candidate |-> <<0>>, required |-> <<0>>, result |-> FALSE]
NoLq == [phase |-> "none", locations |-> <<>>, lib_path |-> [dir |-> "", stem |-> "", ver |-> <<>>]]

Handles == 1..MaxHandles

\* a QLibrary object: constructed by new, image mapped by load(), number of
\* delete-expressions applied to it, initialize() of its image succeeded
NoObject == [ctor |-> FALSE, mapped |-> FALSE, deletes |-> 0, init |-> FALSE]

Constructed(hp) == {h \in DOMAIN hp : hp[h].ctor}
Live(hp) == {h \in DOMAIN hp : hp[h].ctor /\ hp[h].deletes = 0}

\* ------------------------------------------------------------ environment
\* what the library file found at lib_path does when it is used: whether
\* QLibrary::load() maps it, whether it exports NDIlib_v6_load, what
\* initialize() answers and what version() reports (banner text followed by
\* the dotted version)
\* Reported versions have the form the pattern of obs_module_load accepts,
\* major.minor[.patch[.build]], and the banner before them does not end in a
\* digit or a dot, as in "NDI SDK LINUX 10:20:30 Jun 13 2024 6.0.1.0".
VersionTuples ==
    { <<6, 2, 1>>, <<6, 0, 0>>, <<5, 9, 9>>, <<6, 0>>, <<5, 10>>, <<10, 0, 0, 1>> }

Banners == { <<>>, <<"x", "2", " ">> }

NoImage == [loads |-> FALSE, exports |-> FALSE, initOk |-> FALSE,
            banner |-> <<>>, tuple |-> <<0, 0>>]

Images ==
    { NoImage, [NoImage EXCEPT !.loads = TRUE],
      [NoImage EXCEPT !.loads = TRUE, !.exports = TRUE] }
    \cup { [loads |-> TRUE, exports |-> TRUE, initOk |-> TRUE, banner |-> b, tuple |-> t] :
              b \in Banners, t \in VersionTuples }

\* ndiLib->version()
version(image) == image.banner \o FormatVersion(image.tuple)

\* environments and file systems the plugin is started in
Unset == [set |-> FALSE, value |-> ""]

Envs ==
    { [n \in {"NDI_RUNTIME_DIR_V6", "NDILIB_REDIST_FOLDER"} |-> Unset],
      [n \in {"NDI_RUNTIME_DIR_V6", "NDILIB_REDIST_FOLDER"} |->
          IF n = "NDI_RUNTIME_DIR_V6" THEN [set |-> TRUE, value |-> "/opt/ndi"] ELSE Unset] }

\* the directories of the file system; QDir of the empty path is the current
\* directory
AllDirs ==
    { "", frameworksDir, "/opt/ndi", "/opt/redist", "/usr/lib", "/usr/local/lib",
      "/app/plugins/DistroAV/extra/lib", "/Library/NDI SDK for Apple/lib",
      "/Library/NDI/lib", "/opt/homebrew/opt/libndi/lib" }

File(stem, ver) == [stem |-> stem, ver |-> ver, kind |-> "file"]

EmptyFs == [d \in AllDirs |-> {}]

\* a directory holding the library of every platform
Installed == { File("NDILIB_LIBRARY_NAME", <<>>), File("libndi.so.", <<"6">>) }

\* a directory holding older and newer shared objects, and a directory (not
\* a file) of the fixed name
Mixed ==
    { [stem |-> "NDILIB_LIBRARY_NAME", ver |-> <<>>, kind |-> "dir"],
      File("libndi.so.", <<"5">>), File("libndi.so.", <<"1", "0">>) }

FileSystems ==
    { EmptyFs,
      [EmptyFs EXCEPT ![frameworksDir] = Installed],
      [EmptyFs EXCEPT !["/opt/ndi"] = Installed],
      [EmptyFs EXCEPT ![frameworksDir] = Mixed, !["/usr/local/lib"] = Installed] }

\* ----------------------------------------------------------------- Loader
\* the branch for a non-empty lib_path without the cleanup of the load-error
\* path: the QLibrary whose load() failed is kept in loaded_lib
open_library_NoCleanup(image, hp) ==
    LET h   == Cardinality({x \in DOMAIN hp : hp[x].ctor}) + 1
        hp1 == [hp EXCEPT ![h] = [ctor |-> TRUE, mapped |-> image.loads,
                                  deletes |-> 0, init |-> FALSE]]
    IN  [loaded_lib |-> h, heap |-> hp1,
         ret |-> IF image.loads /\ image.exports THEN h ELSE 0,
         trace |-> << [op |-> "new", h |-> h], [op |-> "load", h |-> h] >>
                   \o (IF image.loads THEN << [op |-> "resolve", h |-> h] >> ELSE <<>>)
                   \o (IF image.loads /\ image.exports
                       THEN << [op |-> "NDIlib_v6_load", h |-> h] >> ELSE <<>>)]

\* The branch of load_ndilib() taken for a non-empty lib_path: construct the
\* QLibrary, map the image, resolve and call the entry symbol.  image is the
\* behaviour of the file at lib_path.  The result is the new value of
\* loaded_lib, the new heap, the returned interface pointer and the calls made.
\* NDIlib_v6_load() returns the function table of the image it belongs to.
open_library(image, hp) ==
    LET h   == Cardinality(Constructed(hp)) + 1
        hp1 == [hp EXCEPT ![h] = [NoObject EXCEPT !.ctor = TRUE]]
    IN  IF image.loads
        THEN LET hp2 == [hp1 EXCEPT ![h].mapped = TRUE]
             IN  IF image.exports
                 THEN [loaded_lib |-> h, heap |-> hp2, ret |-> h,
                       trace |-> << [op |-> "new", h |-> h], [op |-> "load", h |-> h],
                                    [op |-> "resolve", h |-> h],
                                    [op |-> "NDIlib_v6_load", h |-> h] >>]
                 ELSE [loaded_lib |-> h, heap |-> hp2, ret |-> 0,
                       trace |-> << [op |-> "new", h |-> h], [op |-> "load", h |-> h],
                                    [op |-> "resolve", h |-> h] >>]
        ELSE [loaded_lib |-> 0,
              heap |-> [hp1 EXCEPT ![h].deletes = 1],
              ret |-> 0,
              trace |-> << [op |-> "new", h |-> h], [op |-> "load", h |-> h],
                           [op |-> "delete", h |-> h] >>]

\* load_ndilib without the test of lib_path: a QLibrary is constructed for
\* the empty path too
load_ndilib_NoPathTest(lib_path, image, ll, hp) == open_library(image, hp)

\* load_ndilib() after the Locator loop: lib_path is the selected path, ll
\* and hp the current loaded_lib and heap.
load_ndilib(lib_path, image, ll, hp) ==
    IF lib_path # EmptyPath
    THEN open_library(image, hp)
    ELSE [loaded_lib |-> ll, heap |-> hp, ret |-> 0, trace |-> <<>>]

\* the registrations without the one of the alpha filter
Registrations_NoAlphaFilter(h) ==
    << [op |-> "obs_register_source", h |-> h], [op |-> "obs_register_output", h |-> h] >>

\* the three capability registrations of obs_module_load
Registrations(h) ==
    << [op |-> "obs_register_source", h |-> h], [op |-> "obs_register_output", h |-> h],
       [op |-> "obs_register_source", h |-> h] >>

\* obs_module_load() from the return of load_ndilib on: r is that result.
\* The value is the return value, the heap and the calls made.
module_load_body(r, image, openDownload) ==
    IF r.ret = 0
    THEN [ret |-> FALSE, heap |-> r.heap,
          trace |-> r.trace \o << [op |-> "QMessageBox", h |-> 0] >>
                    \o (IF openDownload THEN << [op |-> "openUrl", h |-> 0] >> ELSE <<>>)]
    ELSE IF ~image.initOk
    THEN [ret |-> FALSE, heap |-> r.heap,
          trace |-> r.trace \o << [op |-> "initialize", h |-> r.ret] >>]
    ELSE LET hp1 == [r.heap EXCEPT ![r.ret].init = TRUE]
             t1  == r.trace \o << [op |-> "initialize", h |-> r.ret],
                                  [op |-> "version", h |-> r.ret],
                                  [op |-> "is_version_supported", h |-> r.ret] >>
         IN  IF ~is_version_supported(ndi_version_short(version(image)),
                                      PLUGIN_MIN_NDI_VERSION)
             THEN [ret |-> FALSE, heap |-> hp1, trace |-> t1]
             ELSE [ret |-> TRUE, heap |-> hp1, trace |-> t1 \o Registrations(r.ret)]

\* ---------------------------------------------------------------- actions
\* bool obs_module_load(void).  The file system is read as it is at the time
\* of the call; it may have changed since the previous call.
ObsModuleLoad ==
    /\ ~crashed
    /\ \E fsNow \in FileSystems :
        LET lib_path == Locate(platform, env, fsNow)
        IN  /\ lib_path # EmptyPath => Cardinality(Constructed(heap)) < MaxHandles
            /\ \E image \in (IF lib_path = EmptyPath THEN {NoImage} ELSE Images),
                  openDownload \in BOOLEAN :
                  LET r == load_ndilib(lib_path, image, loaded_lib, heap)
                      b == module_load_body(r, image, openDownload)
                  IN  /\ r.ret = 0 \/ ~openDownload
                      /\ fs' = fsNow
                      /\ loaded_lib' = r.loaded_lib
                      /\ ndiLib' = r.ret
                      /\ heap' = b.heap
                      /\ lastCall' = [op |-> "load", lib_path |-> lib_path, image |-> image,
                                      ret |-> b.ret, trace |-> b.trace]
    /\ UNCHANGED <<platform, env, crashed, vq, lq>>

\* the calls of obs_module_unload with the delete moved before the destroy
UnloadCalls_DeleteFirst(nd, ll) ==
    (IF ll # 0 THEN << [op |-> "delete", h |-> ll] >> ELSE <<>>)
        \o (IF nd # 0 THEN << [op |-> "destroy", h |-> nd] >> ELSE <<>>)

\* the calls obs_module_unload makes, in order, for the values nd of ndiLib
\* and ll of loaded_lib
UnloadCalls(nd, ll) ==
    (IF nd # 0 THEN << [op |-> "destroy", h |-> nd] >> ELSE <<>>)
        \o (IF ll # 0 THEN << [op |-> "delete", h |-> ll] >> ELSE <<>>)

\* void obs_module_unload(void).  Deleting an object that was already deleted
\* is undefined: the process either goes on or is terminated.
ObsModuleUnload ==
    /\ ~crashed
    /\ loaded_lib # 0 => heap[loaded_lib].deletes < MaxDeletes
    /\ LET calls == UnloadCalls(ndiLib, loaded_lib)
       IN  /\ ndiLib' = 0
           /\ heap' = IF loaded_lib # 0
                      THEN [heap EXCEPT ![loaded_lib].deletes = @ + 1]
                      ELSE heap
           /\ lastCall' = [op |-> "unload", lib_path |-> EmptyPath, image |-> NoImage,
                           ret |-> FALSE, trace |-> calls]
           /\ IF loaded_lib # 0 /\ heap[loaded_lib].deletes > 0
              THEN crashed' \in BOOLEAN
              ELSE crashed' = crashed
    /\ UNCHANGED <<platform, env, fs, loaded_lib, vq, lq>>

\* ------------------------------------------------------------ initial state
Init ==
    /\ platform \in Platforms
    /\ env \in Envs
    /\ fs \in FileSystems
    /\ loaded_lib = 0
    /\ ndiLib = 0
    /\ heap = [h \in Handles |-> NoObject]
    /\ crashed = FALSE
    /\ lastCall = [op |-> "none", lib_path |-> EmptyPath, image |-> NoImage,
                   ret |-> FALSE, trace |-> <<>>]
    /\ vq = NoVq
    /\ lq = NoLq

Next == ObsModuleLoad \/ ObsModuleUnload

Spec == Init /\ [][Next]_vars

\* ------------------------------------------- is_version_supported on its own
\* most fields of a version tuple passed to is_version_supported
MaxFields == 3

FieldValues == {0, 5, 6, 10}

\* the versions compared: every tuple of up to MaxFields fields, and the
\* versions 6.0, 6.0.0.1, 7.0 and 6.5
QueryTuples ==
    UNION { [1..n -> FieldValues] : n \in 1..MaxFields }
        \cup { <<6, 0>>, <<6, 0, 0, 1>>, <<7, 0>>, <<6, 5>> }

\* the globals of the plugin before any hook was called
FreshGlobals ==
    /\ loaded_lib = 0
    /\ ndiLib = 0
    /\ heap = [h \in Handles |-> NoObject]
    /\ crashed = FALSE
    /\ lastCall = [op |-> "none", lib_path |-> EmptyPath, image |-> NoImage,
                   ret |-> FALSE, trace |-> <<>>]

Fresh ==
    /\ platform = "linux"
    /\ env = [n \in {"NDI_RUNTIME_DIR_V6", "NDILIB_REDIST_FOLDER"} |-> Unset]
    /\ fs = EmptyFs
    /\ FreshGlobals

InitVersion ==
    /\ Fresh
    /\ lq = NoLq
    /\ vq \in { [phase |-> "call", candidate |-> c, required |-> r, result |-> FALSE] :
                    c \in QueryTuples, r \in QueryTuples }

\* bool is_version_supported(const char *version, const char *min_version),
\* called with the dotted text of the two tuples
CallIsVersionSupported ==
    /\ vq.phase = "call"
    /\ vq' = [vq EXCEPT !.phase = "return",
                        !.result = is_version_supported(FormatVersion(vq.candidate),
                                                        FormatVersion(vq.required))]
    /\ UNCHANGED <<platform, env, fs, loaded_lib, ndiLib, heap, crashed, lastCall, lq>>

NextVersion == CallIsVersionSupported

SpecVersion == InitVersion /\ [][NextVersion]_vars

\* ------------------------------------------------------ the Locator on its own
\* most entries of one directory on the multi-version platform
MaxFilesPerDir == 2

\* an environment variable is unset, set to the empty string, or names a directory
LocEnvs ==
    { [n \in {"NDI_RUNTIME_DIR_V6", "NDILIB_REDIST_FOLDER"} |->
          IF n = "NDI_RUNTIME_DIR_V6" THEN a ELSE b] :
        a \in {Unset, [set |-> TRUE, value |-> ""], [set |-> TRUE, value |-> "/opt/ndi"]},
        b \in {Unset, [set |-> TRUE, value |-> ""], [set |-> TRUE, value |-> "/opt/redist"]} }

\* first-match platforms: a directory has no entry of the fixed name, a
\* regular file of that name, or a directory of that name
FixedNameContents ==
    { {}, { File("NDILIB_LIBRARY_NAME", <<>>) },
      { [stem |-> "NDILIB_LIBRARY_NAME", ver |-> <<>>, kind |-> "dir"] } }

FixedNameDirs == { frameworksDir, "/opt/ndi", "/opt/redist", "/usr/local/lib", "/Library/NDI/lib" }

\* multi-version platform: a directory holds up to MaxFilesPerDir of the
\* shared objects libndi.so.0, .2, .3, .10 and a directory named libndi.so.99
SharedObjects ==
    { File("libndi.so.", <<"0">>), File("libndi.so.", <<"2">>), File("libndi.so.", <<"3">>),
      File("libndi.so.", <<"1", "0">>),
      [stem |-> "libndi.so.", ver |-> <<"9", "9">>, kind |-> "dir"] }

SharedObjectContents == { c \in SUBSET SharedObjects : Cardinality(c) <= MaxFilesPerDir }

SharedObjectDirs == { frameworksDir, "/opt/ndi", "/usr/local/lib" }

LocFileSystems(plat) ==
    IF plat = "linux"
    THEN { [d \in AllDirs |-> IF d \in SharedObjectDirs THEN c[d] ELSE {}] :
              c \in [SharedObjectDirs -> SharedObjectContents] }
    ELSE { [d \in AllDirs |-> IF d \in FixedNameDirs THEN c[d] ELSE {}] :
              c \in [FixedNameDirs -> FixedNameContents] }

InitLocator ==
    /\ platform \in Platforms
    /\ env \in LocEnvs
    /\ fs \in LocFileSystems(platform)
    /\ FreshGlobals
    /\ vq = NoVq
    /\ lq = [NoLq EXCEPT !.phase = "start"]

\* load_ndilib() up to the end of the loop over the candidate list
RunLocator ==
    /\ lq.phase = "start"
    /\ lq' = [phase |-> "done", locations |-> locations(platform, env),
              lib_path |-> Locate(platform, env, fs)]
    /\ UNCHANGED <<platform, env, fs, loaded_lib, ndiLib, heap, crashed, lastCall, vq>>

NextLocator == RunLocator

SpecLocator == InitLocator /\ [][NextLocator]_vars

\* ============================================================== properties
\* Reference order on version tuples: the shorter tuple is padded with
\* zeros and the first differing field decides.
Pad(t, n) == [i \in 1..n |-> IF i <= Len(t) THEN t[i] ELSE 0]

TupleLess(a, b) ==
    LET n  == qMax(Len(a), Len(b))
        pa == Pad(a, n)
        pb == Pad(b, n)
    IN  \E i \in 1..n : pa[i] < pb[i] /\ \A j \in 1..(i - 1) : pa[j] = pb[j]

\* the required minimum 6.0.0 as a tuple
MinTuple == <<6, 0, 0>>

RegisterOps == {"obs_register_source", "obs_register_output"}

\* positions of the calls of the last hook that carry one of the given names
CallsOf(ops) == {i \in 1..Len(lastCall.trace) : lastCall.trace[i].op \in ops}

\* outcomes of the last obs_module_load, told from its inputs
Loaded == lastCall.op = "load"
NotFound == Loaded /\ lastCall.lib_path = EmptyPath
LoadError == Loaded /\ lastCall.lib_path # EmptyPath /\ ~lastCall.image.loads
EntryPointMissing ==
    Loaded /\ lastCall.lib_path # EmptyPath /\ lastCall.image.loads /\ ~lastCall.image.exports
GotInterface ==
    Loaded /\ lastCall.lib_path # EmptyPath /\ lastCall.image.loads /\ lastCall.image.exports
InitializationFailed == GotInterface /\ ~lastCall.image.initOk
VersionUnsupported ==
    GotInterface /\ lastCall.image.initOk /\ TupleLess(lastCall.image.tuple, MinTuple)
ValidLibrary ==
    GotInterface /\ lastCall.image.initOk /\ ~TupleLess(lastCall.image.tuple, MinTuple)

\* C11: is_version_supported(candidate, required) is the reference comparison
\* of the two tuples: supported exactly when the candidate, padded with
\* zeros, is not less than the required version at the first differing field.
C11_VersionMatchesReference ==
    vq.phase = "return" => (vq.result <=> ~TupleLess(vq.candidate, vq.required))

C11_Witness ==
    /\ vq.phase = "return"
    /\ vq.candidate = <<6, 0>> /\ vq.required = <<6, 0, 0, 1>>
    /\ vq.result = FALSE

\* the Locator ran on a first-match platform
FirstMatchDone == lq.phase = "done" /\ platform # "linux"

\* the directory holds a regular file of the fixed library name
HasLibrary(d) ==
    \E f \in fs[d] : f.stem = "NDILIB_LIBRARY_NAME" /\ f.ver = <<>> /\ f.kind = "file"

\* the directories named by an environment variable that is set and non-empty
OverrideDirs ==
    { env[n].value : n \in {n \in DOMAIN env : env[n].set /\ env[n].value # ""} }

\* C12 as stated: on a first-match platform, when an environment-override
\* directory and the bundled Frameworks directory both hold the library file,
\* the file in the environment-override directory is selected.
C12_OverrideBeforeBundled ==
    (FirstMatchDone /\ HasLibrary(frameworksDir) /\ \E d \in OverrideDirs : HasLibrary(d))
        => lq.lib_path.dir \in {d \in OverrideDirs : HasLibrary(d)}

\* C12 amended: on a first-match platform, when an environment-override
\* directory and the bundled Frameworks directory both hold the library file,
\* the file in Frameworks is selected; an environment-override directory
\* holding the file is selected when Frameworks does not hold it, the one of
\* NDI_RUNTIME_DIR_V6 before the one of NDILIB_REDIST_FOLDER.
C12_BundledBeforeOverride ==
    (FirstMatchDone /\ \E d \in OverrideDirs : HasLibrary(d))
        => /\ HasLibrary(frameworksDir) => lq.lib_path.dir = frameworksDir
           /\ ~HasLibrary(frameworksDir) =>
                 /\ lq.lib_path.dir \in {d \in OverrideDirs : HasLibrary(d)}
                 /\ (env["NDI_RUNTIME_DIR_V6"].set /\ env["NDI_RUNTIME_DIR_V6"].value # ""
                        /\ HasLibrary(env["NDI_RUNTIME_DIR_V6"].value))
                       => lq.lib_path.dir = env["NDI_RUNTIME_DIR_V6"].value

C12_Witness ==
    /\ FirstMatchDone
    /\ HasLibrary(frameworksDir) /\ "/opt/ndi" \in OverrideDirs /\ HasLibrary("/opt/ndi")
    /\ lq.lib_path.dir = frameworksDir

\* C13: on a first-match platform the selected path is the fixed-name file
\* in the earliest directory of the candidate list that holds it as a regular
\* file, and nothing is selected when no directory of the list holds it.
C13_FirstMatchSelectsEarliest ==
    FirstMatchDone
        => LET holders == {i \in 1..Len(lq.locations) : HasLibrary(lq.locations[i])}
           IN  IF holders = {} THEN lq.lib_path.dir = ""
               ELSE /\ lq.lib_path.stem = "NDILIB_LIBRARY_NAME"
                    /\ \E i \in holders : /\ \A j \in holders : i <= j
                                          /\ lq.lib_path.dir = lq.locations[i]

C13_Witness ==
    /\ FirstMatchDone
    /\ HasLibrary(frameworksDir) /\ HasLibrary("/usr/local/lib")
    /\ "/usr/local/lib" \in {lq.locations[i] : i \in 1..Len(lq.locations)}
    /\ lq.lib_path.dir = frameworksDir

\* the Locator ran on the multi-version platform
MultiVersionDone == lq.phase = "done" /\ platform = "linux"

\* the files libndi.so.<N> of the candidate directories: directory and digits
PresentVersionedFiles ==
    UNION { { [dir |-> lq.locations[i], ver |-> f.ver] :
                f \in { g \in fs[lq.locations[i]] :
                          /\ g.stem = "libndi.so." /\ g.kind = "file"
                          /\ g.ver # <<>> /\ AllDigits(g.ver) } } :
            i \in 1..Len(lq.locations) }

\* the greatest suffix N among the files libndi.so.<N> of the candidate list
MaxSuffix ==
    CHOOSE n \in {DecimalValue(m.ver) : m \in PresentVersionedFiles} :
        \A m \in PresentVersionedFiles : DecimalValue(m.ver) <= n

\* C14: on the multi-version platform, whenever a candidate directory holds a
\* file libndi.so.<N>, a file is selected and its suffix is the greatest N of
\* all such files in all candidate directories, for every N >= 0.
C14_SelectsGlobalMaximum ==
    (MultiVersionDone /\ PresentVersionedFiles # {})
        => /\ [dir |-> lq.lib_path.dir, ver |-> lq.lib_path.ver] \in PresentVersionedFiles
           /\ DecimalValue(lq.lib_path.ver) = MaxSuffix

\* C17: the candidate list is the Frameworks directory, then the value of
\* NDI_RUNTIME_DIR_V6 iff it is set and non-empty, then the value of
\* NDILIB_REDIST_FOLDER iff it is set and non-empty, then the system
\* directories of the platform, then the three vendor / package-manager
\* directories; the empty string is never an entry.
C17_CandidateListOrder ==
    lq.phase = "done"
        => LET L   == lq.locations
               v6  == env["NDI_RUNTIME_DIR_V6"]
               rd  == env["NDILIB_REDIST_FOLDER"]
               n6  == IF v6.set /\ v6.value # "" THEN 1 ELSE 0
               nr  == IF rd.set /\ rd.value # "" THEN 1 ELSE 0
               sys == CASE platform = "linux" ->
                              <<"/usr/lib", "/usr/local/lib", "/app/plugins/DistroAV/extra/lib">>
                        [] platform = "macos" -> <<"/usr/lib", "/usr/local/lib">>
                        [] platform = "windows" -> <<>>
           IN  /\ Len(L) = 1 + n6 + nr + Len(sys) + 3
               /\ L[1] = frameworksDir
               /\ n6 = 1 => L[2] = v6.value
               /\ nr = 1 => L[2 + n6] = rd.value
               /\ SubSeq(L, 2 + n6 + nr, 1 + n6 + nr + Len(sys)) = sys
               /\ SubSeq(L, Len(L) - 2, Len(L)) =
                      <<"/Library/NDI SDK for Apple/lib", "/Library/NDI/lib",
                        "/opt/homebrew/opt/libndi/lib">>
               /\ \A i \in 1..Len(L) : L[i] # ""

C17_Witness ==
    /\ lq.phase = "done"
    /\ env["NDI_RUNTIME_DIR_V6"] = [set |-> TRUE, value |-> ""]
    /\ env["NDILIB_REDIST_FOLDER"] = [set |-> TRUE, value |-> "/opt/redist"]
    /\ lq.locations[2] = "/opt/redist"

\* C18: on the multi-version platform, when the greatest suffix occurs in
\* more than one candidate directory, the selected path is in the earliest
\* of these directories of the candidate list.
C18_TieKeepsEarliestDirectory ==
    LET holders == { i \in 1..Len(lq.locations) :
                       \E m \in PresentVersionedFiles :
                           m.dir = lq.locations[i] /\ DecimalValue(m.ver) = MaxSuffix }
    IN  (MultiVersionDone /\ Cardinality(holders) >= 2)
            => \E i \in holders : /\ \A j \in holders : i <= j
                                  /\ lq.lib_path.dir = lq.locations[i]
                                  /\ DecimalValue(lq.lib_path.ver) = MaxSuffix
                                  /\ lq.lib_path.stem = "libndi.so."

\* C15: obs_module_unload calls destroy exactly when ndiLib is non-null, on
\* the interface ndiLib points to, while the QLibrary object backing that
\* interface has not been deleted, and before any delete of the same call.
C15_DestroyBeforeRelease ==
    [][ lastCall'.op = "unload"
            => LET calls    == lastCall'.trace
                   destroys == {i \in 1..Len(calls) : calls[i].op = "destroy"}
                   deletes  == {i \in 1..Len(calls) : calls[i].op = "delete"}
               IN  /\ (destroys # {}) <=> (ndiLib # 0)
                   /\ \A i \in destroys :
                         /\ calls[i].h = ndiLib
                         /\ heap[calls[i].h].ctor /\ heap[calls[i].h].deletes = 0
                         /\ \A j \in deletes : i < j ]_vars

C15_Witness ==
    /\ lastCall.op = "unload"
    /\ Len(lastCall.trace) = 2
    /\ lastCall.trace[1].op = "destroy" /\ lastCall.trace[2].op = "delete"
    /\ lastCall.trace[1].h = lastCall.trace[2].h

\* C16: after a load_ndilib whose QLibrary::load() failed, the QLibrary
\* constructed by the call has been deleted exactly once, loaded_lib is null
\* and the interface pointer is null.
C16_LoadErrorReleases ==
    LoadError
        => /\ loaded_lib = 0
           /\ ndiLib = 0
           /\ lastCall.ret = FALSE
           /\ CallsOf({"new"}) # {}
           /\ \A i \in CallsOf({"new"}) :
                 /\ heap[lastCall.trace[i].h].deletes = 1
                 /\ \E j \in CallsOf({"delete"}) :
                       i < j /\ lastCall.trace[j].h = lastCall.trace[i].h

C16_Witness ==
    /\ LoadError
    /\ loaded_lib = 0 /\ ndiLib = 0
    /\ \E h \in Handles : heap[h].ctor /\ heap[h].deletes = 1

\* C1: teardown is idempotent: an obs_module_unload that directly follows an
\* obs_module_unload makes no call (neither destroy nor delete), and no
\* QLibrary object is deleted more than once in the whole run.
C1_TeardownIdempotent ==
    [][ (lastCall.op = "unload" /\ lastCall'.op = "unload")
            => /\ lastCall'.trace = <<>>
               /\ \A h \in Handles : heap'[h].deletes <= 1 ]_vars

\* C2: after a load_ndilib whose library maps but does not export
\* NDIlib_v6_load, loaded_lib is null, the interface pointer is null and no
\* QLibrary object is alive that this call constructed.
C2_EntryPointMissingReleases ==
    EntryPointMissing => /\ loaded_lib = 0
                         /\ ndiLib = 0
                         /\ \A i \in CallsOf({"new"}) : lastCall.trace[i].h \notin Live(heap)

\* C3: between calls, ndiLib is non-null only if loaded_lib is an alive
\* QLibrary object, the one the interface belongs to, whose initialize()
\* succeeded.
C3_InterfaceImpliesLiveInitialized ==
    ndiLib # 0 => /\ loaded_lib = ndiLib
                  /\ loaded_lib \in Live(heap)
                  /\ heap[loaded_lib].init

\* C4: after obs_module_unload returns, loaded_lib and ndiLib are both null.
C4_UnloadNullsBoth ==
    lastCall.op = "unload" => loaded_lib = 0 /\ ndiLib = 0

\* C5: there is never more than one alive QLibrary object, and an alive
\* object is the one loaded_lib points to.
C5_AtMostOneLiveHandle ==
    /\ Cardinality(Live(heap)) <= 1
    /\ \A h \in Live(heap) : loaded_lib = h

\* C6: after an obs_module_load that found the reported version below 6.0.0
\* no handle is held: loaded_lib is null and no QLibrary object is alive.
C6_VersionUnsupportedReleases ==
    VersionUnsupported => loaded_lib = 0 /\ Live(heap) = {}

\* C7: after an obs_module_load whose initialize() reported failure no handle
\* is held: loaded_lib is null and no QLibrary object is alive.
C7_InitializationFailedReleases ==
    InitializationFailed => loaded_lib = 0 /\ Live(heap) = {}

\* C8: on every failure outcome (not found, load error, entry point missing,
\* initialization failed, version below the minimum) obs_module_load returns
\* false and makes none of the registration calls.
C8_FailureDeclines ==
    (NotFound \/ LoadError \/ EntryPointMissing \/ InitializationFailed \/ VersionUnsupported)
        => lastCall.ret = FALSE /\ CallsOf(RegisterOps) = {}

C8_Witness ==
    /\ VersionUnsupported
    /\ lastCall.image.tuple = <<5, 10>>
    /\ lastCall.ret = FALSE
    /\ CallsOf({"is_version_supported"}) # {}

\* C9: when the selected library maps, exports the entry symbol, passes
\* initialize() and reports a version of at least 6.0.0, obs_module_load
\* returns true in the Active state (interface and handle set, handle alive
\* and initialized) and makes exactly three registration calls, each after
\* initialize() and after the version check.
C9_ValidLibraryActivates ==
    ValidLibrary
        => /\ lastCall.ret = TRUE
           /\ ndiLib # 0 /\ loaded_lib = ndiLib
           /\ loaded_lib \in Live(heap) /\ heap[loaded_lib].init
           /\ Cardinality(CallsOf(RegisterOps)) = 3
           /\ CallsOf({"initialize"}) # {} /\ CallsOf({"is_version_supported"}) # {}
           /\ \A i \in CallsOf(RegisterOps) :
                 \A j \in CallsOf({"initialize", "is_version_supported"}) : j < i

C9_Witness ==
    /\ ValidLibrary
    /\ lastCall.image.tuple = <<6, 2, 1>>
    /\ lastCall.image.banner # <<>>
    /\ lastCall.ret = TRUE

\* C10: an obs_module_load for which the Locator resolves no path constructs
\* no QLibrary object and attempts no load, leaves loaded_lib as it was and
\* ndiLib null (both null if both were), returns false and registers nothing.
C10_NotFoundLoadsNothing ==
    [][ (lastCall'.op = "load" /\ lastCall'.lib_path = EmptyPath)
            => /\ heap' = heap
               /\ loaded_lib' = loaded_lib
               /\ ndiLib' = 0
               /\ lastCall'.ret = FALSE
               /\ \A i \in 1..Len(lastCall'.trace) :
                     lastCall'.trace[i].op \notin (RegisterOps \cup {"new", "load"}) ]_vars

C10_Witness ==
    /\ NotFound
    /\ loaded_lib = 0 /\ ndiLib = 0
    /\ Constructed(heap) = {}
    /\ lastCall.ret = FALSE

====
